---- MODULE Spec2Model ----
(***************************************************************************)
(* Model of the ingest loop of src/server/index.ts (function main): the    *)
(* for-await loop over the XMTP message stream, the activeChats Map of     *)
(* per-sender ChatAgent chats, and the try/catch around one turn.          *)
(*                                                                         *)
(* The transport (stream, getConversationById, conversation.send) and the  *)
(* policy engine (createChat, chat.next) are external: every outcome they  *)
(* can have (value, absent, rejected promise) is a nondeterministic choice.*)
(* Each await of the loop body is one step; pc is the position of main.    *)
(***************************************************************************)
EXTENDS Integers, Sequences, FiniteSets, TLC

\* ---------------------------------------------------------------- bounds
MaxMsgs == 3

\* largest amount a function call is tried with
MaxAmount == 12

\* ------------------------------------------------------------ vocabulary
None == "none"

\* activeChats.get(k) === undefined; chats are numbered from 1
NoChat == 0

\* no chat of the sender was in activeChats when the message arrived
NoPrior == [chat |-> NoChat, turnState |-> None, createdIn |-> None]

\* client.inboxId of the agent
inboxId == "agent"

\* senderInboxId values the stream can deliver ("AGENT" is the agent's own
\* inbox id in another letter case; "P1" and "p1" differ in letter case only)
Senders == {"AGENT", "p1", "P1"}
ConvIds == {"c1", "c2"}
TypeIds == {"text", "reaction"}
Bodies == {"hi", "bye"}

\* String.prototype.toLowerCase on the inbox ids in use
toLowerCase(s) ==
  CASE s = "AGENT" -> "agent"
    [] s = "P1" -> "p1"
    [] OTHER -> s

Messages ==
  [senderInboxId : Senders, conversationId : ConvIds,
   typeId : TypeIds, content : Bodies]

\* a stream item that is undefined (every optional-chained read gives undefined)
Undefined ==
  [senderInboxId |-> "undefined", conversationId |-> "undefined",
   typeId |-> "undefined", content |-> "undefined"]

\* what the stream can yield: a decoded message or undefined
StreamItems == Messages \cup {Undefined}

\* response of chat.next: message present?, functionCall present?, isFinished
Responses == [message : BOOLEAN, functionCall : BOOLEAN, isFinished : BOOLEAN]

\* the value of const response before chat.next has resolved
NoResponse == [message |-> FALSE, functionCall |-> FALSE, isFinished |-> FALSE,
               unset |-> TRUE]

ApologyText == "Sorry, I encountered an error processing your message."
ReplyText == "reply"

\* the environment variables the program reads
EnvNames ==
  {"WALLET_KEY", "ENCRYPTION_KEY", "XMTP_ENV", "GAME_AGENT_KEY", "RUGPULL_API_KEY"}

\* mutant: the list of validated names without RUGPULL_API_KEY
RequiredEnvShort == {"WALLET_KEY", "ENCRYPTION_KEY", "XMTP_ENV", "GAME_AGENT_KEY"}

\* the names handed to validateEnvironment
RequiredEnv ==
  {"WALLET_KEY", "ENCRYPTION_KEY", "XMTP_ENV", "GAME_AGENT_KEY", "RUGPULL_API_KEY"}

\* validateEnvironment(names) of ./client.js: passes when every name is set
validateEnvironment(names, e) == names \subseteq e

\* names of the functions of actionSpace
FnNames == {"fetch_bitcoin_prediction", "detect_rug_pull", "get_racfathers_info"}

\* args of fetch_bitcoin_prediction: amount, declared min 1 and max 10
AmountMin == 1
AmountMax == 10

Amounts == 0..MaxAmount
Tokens == {"0xabc"}

\* the args object of a function call: no argument, an amount, or a token address
ArgObjects ==
  {<<>>} \cup [amount : Amounts] \cup [token_address : Tokens]

Invocations == [fn_name : FnNames, args : ArgObjects]

\* what the network call of an executable does: a 2xx response with a JSON
\* body, a non-2xx response, a rejected fetch, a 2xx response whose body
\* does not parse
NetOutcomes == {"ok", "status", "throw", "badjson"}

NoInvocation == [fn_name |-> None, args |-> <<>>]
NoResult == [status |-> None, payload |-> None, called |-> FALSE]

VARIABLES
  pc,            \* position of the program: start-up, then main's loop (stream, lookup,
                 \* get, next, send, apology, crashed); dispatch, returned for an executable
  message,       \* loop variable: the stream item being processed
  conversation,  \* const conversation (a conversation id, or None)
  chat,          \* let chat (index into chats, or NoChat)
  response,      \* const response of chat.next (or NoResponse)
  activeChats,   \* the Map: set of entries [key, chat]
  chats,         \* every chat createChat has returned: [partnerId, turnState]
  received,      \* number of items taken from the stream
  sent,          \* conversation.send calls of the current iteration
  advanced,      \* every chat.next call so far, in call order
  accepted,      \* every message that passed the filter and the lookup
  createFailed,  \* arrival numbers of messages whose createChat rejected
  prior,         \* the sender's entry (chat, turnState) when the message arrived;
                 \* createdIn: the conversation of the message that created the
                 \* chat, kept when that was the message just before this one
  fault,         \* the first call that rejected in the current iteration, or None
  env,           \* names of the environment variables that are set
  synced,        \* client.conversations.sync() has resolved
  subscribed,    \* client.conversations.streamAllMessages() has resolved
  invocation,    \* the function call an executable is run for: [fn_name, args]
  net,           \* what the executable's fetch will do
  fnResponse     \* the ExecutableGameFunctionResponse of the executable

\* state of module start-up
startupVars == <<env, synced, subscribed>>

\* state of one run of an executable of the action space
handlerVars == <<invocation, net, fnResponse>>

vars == <<pc, message, conversation, chat, response, activeChats, chats,
          received, sent, advanced, accepted, createFailed, prior, fault,
          env, synced, subscribed, invocation, net, fnResponse>>

\* --------------------------------------------------------------- the Map
MapHas(m, k) == \E e \in m : e.key = k

\* mutant: the lookup never finds the sender's entry
MapGetMiss(m, k) == NoChat

\* mutant: the lookup ignores the key and returns whatever entry there is
MapGetFirst(m, k) == IF m = {} THEN NoChat ELSE (CHOOSE e \in m : TRUE).chat

MapGet(m, k) == IF MapHas(m, k) THEN (CHOOSE e \in m : e.key = k).chat ELSE NoChat

MapSet(m, k, v) == {e \in m : e.key # k} \cup {[key |-> k, chat |-> v]}

\* mutant: activeChats.clear() instead of activeChats.delete(sender)
MapClear(m, k) == {}

MapDelete(m, k) == {e \in m : e.key # k}

\* ------------------------------------------------------------ the filter
\* if (message?.senderInboxId.toLowerCase() === client.inboxId.toLowerCase()
\*     || message?.contentType?.typeId !== "text") continue;
\* mutant: the filter without its content-type test
IgnoredSelfOnly(m) ==
  IF m = Undefined THEN TRUE
  ELSE toLowerCase(m.senderInboxId) = toLowerCase(inboxId)

\* mutant: the self test compares the ids as they are, without toLowerCase
IgnoredExactCase(m) ==
  IF m = Undefined THEN TRUE
  ELSE \/ m.senderInboxId = inboxId
       \/ m.typeId # "text"

Ignored(m) ==
  IF m = Undefined THEN TRUE
  ELSE \/ toLowerCase(m.senderInboxId) = toLowerCase(inboxId)
       \/ m.typeId # "text"

\* ------------------------------------------------------------------ Init
Init ==
  /\ pc = "stream"
  /\ message = Undefined
  /\ conversation = None
  /\ chat = NoChat
  /\ response = NoResponse
  /\ activeChats = {}
  /\ chats = <<>>
  /\ received = 0
  /\ sent = <<>>
  /\ advanced = <<>>
  /\ accepted = <<>>
  /\ createFailed = {}
  /\ prior = NoPrior
  /\ fault = None
  /\ env = EnvNames
  /\ synced = TRUE
  /\ subscribed = TRUE
  /\ invocation = NoInvocation
  /\ net = None
  /\ fnResponse = NoResult

\* --------------------------------------------------------------- actions
\* mutant: the reply send is not awaited, so the next item can be taken from
\* the stream while the send is still pending
StreamNextOverlap(m) ==
  /\ pc \in {"stream", "send"}
  /\ received < MaxMsgs
  /\ received' = received + 1
  /\ message' = m
  /\ conversation' = None
  /\ chat' = NoChat
  /\ response' = NoResponse
  /\ sent' = <<>>
  /\ fault' = None
  /\ prior' = IF \E e \in activeChats : e.key = m.senderInboxId
               THEN LET e == CHOOSE e \in activeChats : e.key = m.senderInboxId
                    IN [chat |-> e.chat, turnState |-> chats[e.chat].turnState,
                        createdIn |-> IF e.chat = chat /\ prior.chat = NoChat
                                      THEN conversation ELSE None]
               ELSE NoPrior
  /\ pc' = IF Ignored(m) THEN "stream" ELSE "lookup"
  /\ UNCHANGED <<activeChats, chats, advanced, accepted, createFailed>>
  /\ UNCHANGED <<startupVars, handlerVars>>

\* for await (const message of stream) { if (...) continue; ... }
StreamNext(m) ==
  /\ pc = "stream"
  /\ received < MaxMsgs
  /\ received' = received + 1
  /\ message' = m
  /\ conversation' = None
  /\ chat' = NoChat
  /\ response' = NoResponse
  /\ sent' = <<>>
  /\ fault' = None
  /\ prior' = IF \E e \in activeChats : e.key = m.senderInboxId
               THEN LET e == CHOOSE e \in activeChats : e.key = m.senderInboxId
                    IN [chat |-> e.chat, turnState |-> chats[e.chat].turnState,
                        createdIn |-> IF e.chat = chat /\ prior.chat = NoChat
                                      THEN conversation ELSE None]
               ELSE NoPrior
  /\ pc' = IF Ignored(m) THEN "stream" ELSE "lookup"
  /\ UNCHANGED <<activeChats, chats, advanced, accepted, createFailed>>
  /\ UNCHANGED <<startupVars, handlerVars>>

\* if (!conversation) { console.log("Unable to find conversation, skipping"); continue; }
\* mutant: the absent conversation is not skipped
NotFoundNever(c) == FALSE

NotFound(c) == c = None

\* mutant: the lookup does not use message.conversationId and resolves a fixed
\* conversation of the local db
GetConversationByIdFixed(outcome) ==
  /\ pc = "lookup"
  /\ IF outcome = "throws"
     THEN /\ pc' = "crashed"
          /\ fault' = "lookup"
          /\ UNCHANGED <<conversation, accepted>>
     ELSE LET result == IF outcome = "found" THEN "c1" ELSE None IN
          /\ conversation' = result
          /\ IF NotFound(result)
             THEN /\ pc' = "stream"
                  /\ UNCHANGED accepted
             ELSE /\ pc' = "get"
                  /\ accepted' = Append(accepted, [seq |-> received,
                                                   sender |-> message.senderInboxId,
                                                   content |-> message.content])
          /\ UNCHANGED fault
  /\ UNCHANGED <<message, chat, response, activeChats, chats, received, sent,
                 advanced, createFailed, prior>>
  /\ UNCHANGED <<startupVars, handlerVars>>

\* const conversation = await client.conversations.getConversationById(...)
\* outcome: "found", "absent", or "throws" (the await is outside the try)
GetConversationById(outcome) ==
  /\ pc = "lookup"
  /\ IF outcome = "throws"
     THEN /\ pc' = "crashed"
          /\ fault' = "lookup"
          /\ UNCHANGED <<conversation, accepted>>
     ELSE LET result == IF outcome = "found" THEN message.conversationId ELSE None IN
          /\ conversation' = result
          /\ IF NotFound(result)
             THEN /\ pc' = "stream"
                  /\ UNCHANGED accepted
             ELSE /\ pc' = "get"
                  /\ accepted' = Append(accepted, [seq |-> received,
                                                   sender |-> message.senderInboxId,
                                                   content |-> message.content])
          /\ UNCHANGED fault
  /\ UNCHANGED <<message, chat, response, activeChats, chats, received, sent,
                 advanced, createFailed, prior>>
  /\ UNCHANGED <<startupVars, handlerVars>>

\* mutant: the entry is set before createChat is awaited, so a rejected
\* createChat leaves an entry without a chat behind
GetOrCreateChatEager(createOk) ==
  /\ pc = "get"
  /\ LET found == MapGet(activeChats, message.senderInboxId) IN
     IF found # NoChat
     THEN /\ createOk
          /\ chat' = found
          /\ pc' = "next"
          /\ UNCHANGED <<activeChats, chats, createFailed, fault>>
     ELSE IF createOk
     THEN /\ chats' = Append(chats, [partnerId |-> message.senderInboxId,
                                     turnState |-> "Active"])
          /\ chat' = Len(chats) + 1
          /\ activeChats' = MapSet(activeChats, message.senderInboxId, Len(chats) + 1)
          /\ pc' = "next"
          /\ UNCHANGED <<createFailed, fault>>
     ELSE /\ createFailed' = createFailed \cup {received}
          /\ fault' = "create"
          /\ pc' = "apology"
          /\ activeChats' = MapSet(activeChats, message.senderInboxId, NoChat)
          /\ UNCHANGED <<chats, chat>>
  /\ UNCHANGED <<message, conversation, response, received, sent, advanced,
                 accepted, prior>>
  /\ UNCHANGED <<startupVars, handlerVars>>

\* let chat = activeChats.get(sender);
\* if (!chat) { chat = await chatAgent.createChat(...); activeChats.set(sender, chat); }
GetOrCreateChat(createOk) ==
  /\ pc = "get"
  /\ LET found == MapGet(activeChats, message.senderInboxId) IN
     IF found # NoChat
     THEN /\ createOk
          /\ chat' = found
          /\ pc' = "next"
          /\ UNCHANGED <<activeChats, chats, createFailed, fault>>
     ELSE IF createOk
     THEN /\ chats' = Append(chats, [partnerId |-> message.senderInboxId,
                                     turnState |-> "Active"])
          /\ chat' = Len(chats) + 1
          /\ activeChats' = MapSet(activeChats, message.senderInboxId, Len(chats) + 1)
          /\ pc' = "next"
          /\ UNCHANGED <<createFailed, fault>>
     ELSE /\ createFailed' = createFailed \cup {received}
          /\ fault' = "create"
          /\ pc' = "apology"
          /\ UNCHANGED <<activeChats, chats, chat>>
  /\ UNCHANGED <<message, conversation, response, received, sent, advanced,
                 accepted, prior>>
  /\ UNCHANGED <<startupVars, handlerVars>>

\* if (response.isFinished) activeChats.delete(sender); then the next iteration
EndOfTry(m, resp, sender) ==
  IF resp.isFinished THEN MapDelete(m, sender) ELSE m

\* const response = await chat.next(message.content)
\* r is the policy's decision; ok = FALSE when chat.next rejects
ChatNext(ok, r) ==
  /\ pc = "next"
  /\ advanced' = Append(advanced, [seq |-> received, chat |-> chat,
                                   sender |-> message.senderInboxId,
                                   typeId |-> message.typeId,
                                   content |-> message.content,
                                   wasFinished |-> chats[chat].turnState = "Finished"])
  /\ IF ~ok
     THEN /\ fault' = "next"
          /\ pc' = "apology"
          /\ UNCHANGED <<response, chats, activeChats>>
     ELSE /\ response' = r
          /\ chats' = IF r.isFinished
                      THEN [chats EXCEPT ![chat].turnState = "Finished"]
                      ELSE chats
          /\ IF r.message
             THEN /\ pc' = "send"
                  /\ UNCHANGED activeChats
             ELSE /\ pc' = "stream"
                  /\ activeChats' = EndOfTry(activeChats, r, message.senderInboxId)
          /\ UNCHANGED fault
  /\ UNCHANGED <<message, conversation, chat, received, sent, accepted,
                 createFailed, prior>>
  /\ UNCHANGED <<startupVars, handlerVars>>

\* mutant: line 268 is not commented out, so a finished chat gets a second
\* send, "Chat ended", after its reply
SendReplyChatEnded(ok) ==
  /\ pc = "send"
  /\ sent' = IF ok /\ response.isFinished
             THEN sent \o <<[conv |-> conversation, text |-> ReplyText, ok |-> TRUE],
                            [conv |-> conversation, text |-> "Chat ended", ok |-> TRUE]>>
             ELSE Append(sent, [conv |-> conversation, text |-> ReplyText, ok |-> ok])
  /\ IF ok
     THEN /\ pc' = "stream"
          /\ activeChats' = EndOfTry(activeChats, response, message.senderInboxId)
          /\ UNCHANGED fault
     ELSE /\ fault' = "send"
          /\ pc' = "apology"
          /\ UNCHANGED activeChats
  /\ UNCHANGED <<message, conversation, chat, response, chats, received,
                 advanced, accepted, createFailed, prior>>
  /\ UNCHANGED <<startupVars, handlerVars>>

\* if (response.message) await conversation.send(response.message)
SendReply(ok) ==
  /\ pc = "send"
  /\ sent' = Append(sent, [conv |-> conversation, text |-> ReplyText, ok |-> ok])
  /\ IF ok
     THEN /\ pc' = "stream"
          /\ activeChats' = EndOfTry(activeChats, response, message.senderInboxId)
          /\ UNCHANGED fault
     ELSE /\ fault' = "send"
          /\ pc' = "apology"
          /\ UNCHANGED activeChats
  /\ UNCHANGED <<message, conversation, chat, response, chats, received,
                 advanced, accepted, createFailed, prior>>
  /\ UNCHANGED <<startupVars, handlerVars>>

\* mutant: the catch block also evicts the sender's chat
SendApologyEvict(ok) ==
  /\ pc = "apology"
  /\ sent' = Append(sent, [conv |-> conversation, text |-> ApologyText, ok |-> ok])
  /\ activeChats' = MapDelete(activeChats, message.senderInboxId)
  /\ pc' = IF ok THEN "stream" ELSE "crashed"
  /\ UNCHANGED <<message, conversation, chat, response, chats, received,
                 advanced, accepted, createFailed, prior, fault>>
  /\ UNCHANGED <<startupVars, handlerVars>>

\* catch (error) { await conversation.send("Sorry, ..."); }
\* a rejection here is not caught: main() rejects and the loop is over
SendApology(ok) ==
  /\ pc = "apology"
  /\ sent' = Append(sent, [conv |-> conversation, text |-> ApologyText, ok |-> ok])
  /\ IF ok
     THEN /\ pc' = "stream"
          /\ UNCHANGED fault
     ELSE /\ pc' = "crashed"
          /\ UNCHANGED fault
  /\ UNCHANGED <<message, conversation, chat, response, activeChats, chats,
                 received, advanced, accepted, createFailed, prior>>
  /\ UNCHANGED <<startupVars, handlerVars>>

\* -------------------------------------------------------------- start-up
\* the process starts with any subset of the environment variables set
ProgramInit ==
  /\ pc = "validate"
  /\ env \in SUBSET EnvNames
  /\ synced = FALSE
  /\ subscribed = FALSE
  /\ message = Undefined
  /\ conversation = None
  /\ chat = NoChat
  /\ response = NoResponse
  /\ activeChats = {}
  /\ chats = <<>>
  /\ received = 0
  /\ sent = <<>>
  /\ advanced = <<>>
  /\ accepted = <<>>
  /\ createFailed = {}
  /\ prior = NoPrior
  /\ fault = None
  /\ invocation = NoInvocation
  /\ net = None
  /\ fnResponse = NoResult

\* const {...} = validateEnvironment(["WALLET_KEY", ...]) at module level
ValidateEnvironment ==
  /\ pc = "validate"
  /\ pc' = IF validateEnvironment(RequiredEnv, env) THEN "agentkey" ELSE "exited"
  /\ UNCHANGED <<message, conversation, chat, response, activeChats, chats,
                 received, sent, advanced, accepted, createFailed, prior, fault,
                 startupVars, handlerVars>>

\* if (!process.env.GAME_AGENT_KEY) throw new Error(...); new ChatAgent(...); main()
CheckGameAgentKey ==
  /\ pc = "agentkey"
  /\ pc' = IF "GAME_AGENT_KEY" \in env THEN "create" ELSE "exited"
  /\ UNCHANGED <<message, conversation, chat, response, activeChats, chats,
                 received, sent, advanced, accepted, createFailed, prior, fault,
                 startupVars, handlerVars>>

\* const client = await Client.create(signer, {...}); a rejection rejects main()
ClientCreate(ok) ==
  /\ pc = "create"
  /\ pc' = IF ok THEN "sync" ELSE "crashed"
  /\ UNCHANGED <<message, conversation, chat, response, activeChats, chats,
                 received, sent, advanced, accepted, createFailed, prior, fault,
                 startupVars, handlerVars>>

\* await client.conversations.sync()
Sync(ok) ==
  /\ pc = "sync"
  /\ synced' = ok
  /\ pc' = IF ok THEN "subscribe" ELSE "crashed"
  /\ UNCHANGED <<message, conversation, chat, response, activeChats, chats,
                 received, sent, advanced, accepted, createFailed, prior, fault,
                 env, subscribed, handlerVars>>

\* const stream = await client.conversations.streamAllMessages();
\* const activeChats = new Map(); then the loop
StreamAllMessages(ok) ==
  /\ pc = "subscribe"
  /\ subscribed' = ok
  /\ activeChats' = {}
  /\ pc' = IF ok THEN "stream" ELSE "crashed"
  /\ UNCHANGED <<message, conversation, chat, response, chats,
                 received, sent, advanced, accepted, createFailed, prior, fault,
                 env, synced, handlerVars>>

ProgramNext ==
  \/ ValidateEnvironment
  \/ CheckGameAgentKey
  \/ \E ok \in BOOLEAN : ClientCreate(ok)
  \/ \E ok \in BOOLEAN : Sync(ok)
  \/ \E ok \in BOOLEAN : StreamAllMessages(ok)
  \/ \E m \in StreamItems : StreamNext(m)
  \/ \E o \in {"found", "absent", "throws"} : GetConversationById(o)
  \/ \E ok \in BOOLEAN : GetOrCreateChat(ok)
  \/ \E ok \in BOOLEAN, r \in Responses : ChatNext(ok, r)
  \/ \E ok \in BOOLEAN : SendReply(ok)
  \/ \E ok \in BOOLEAN : SendApology(ok)

\* the program from process start: start-up, then the loop
ProgramSpec == ProgramInit /\ [][ProgramNext]_vars

\* ---------------------------------------------------- the action space
\* res.ok of the fetch Response
ResOk(n) == n \in {"ok", "badjson"}

\* mutant: the executable without "if (!echoRes.ok) throw", so the body of an
\* error response is returned as the result
FetchBitcoinPredictionNoOkCheck(args, n) ==
  IF n = "throw"
  THEN [status |-> "Failed", payload |-> "error", called |-> TRUE]
  ELSE IF n = "badjson"
  THEN [status |-> "Failed", payload |-> "error", called |-> TRUE]
  ELSE [status |-> "Done", payload |-> "body", called |-> TRUE]

\* executable of fetch_bitcoin_prediction: fetch(echo?limit=${args.amount}),
\* throw on !ok, parse the body, Done; every throw is caught and gives Failed
FetchBitcoinPrediction(args, n) ==
  IF n = "throw"
  THEN [status |-> "Failed", payload |-> "error", called |-> TRUE]
  ELSE IF ~ResOk(n)
  THEN [status |-> "Failed", payload |-> "status", called |-> TRUE]
  ELSE IF n = "badjson"
  THEN [status |-> "Failed", payload |-> "error", called |-> TRUE]
  ELSE [status |-> "Done", payload |-> "body", called |-> TRUE]

\* executable of detect_rug_pull: POST {token_address: args.token_address},
\* throw on !ok, parse the body, Done; every throw is caught and gives Failed
DetectRugPull(args, n) ==
  IF n = "throw"
  THEN [status |-> "Failed", payload |-> "error", called |-> TRUE]
  ELSE IF ~ResOk(n)
  THEN [status |-> "Failed", payload |-> "status", called |-> TRUE]
  ELSE IF n = "badjson"
  THEN [status |-> "Failed", payload |-> "error", called |-> TRUE]
  ELSE [status |-> "Done", payload |-> "body", called |-> TRUE]

\* executable of get_racfathers_info: no network call
GetRacfathersInfo(args, n) ==
  [status |-> "Done", payload |-> "info", called |-> FALSE]

\* the executable of the function the call names, run with the call's args
Execute(inv, n) ==
  CASE inv.fn_name = "fetch_bitcoin_prediction" -> FetchBitcoinPrediction(inv.args, n)
    [] inv.fn_name = "detect_rug_pull" -> DetectRugPull(inv.args, n)
    [] inv.fn_name = "get_racfathers_info" -> GetRacfathersInfo(inv.args, n)

\* a function call of the policy for a function of actionSpace is about to run
HandlerInit ==
  /\ pc = "dispatch"
  /\ invocation \in Invocations
  /\ net \in NetOutcomes
  /\ fnResponse = NoResult
  /\ message = Undefined
  /\ conversation = None
  /\ chat = NoChat
  /\ response = NoResponse
  /\ activeChats = {}
  /\ chats = <<>>
  /\ received = 0
  /\ sent = <<>>
  /\ advanced = <<>>
  /\ accepted = <<>>
  /\ createFailed = {}
  /\ prior = NoPrior
  /\ fault = None
  /\ env = EnvNames
  /\ synced = TRUE
  /\ subscribed = TRUE

\* executable: async (args, logger) => { ... }
RunExecutable ==
  /\ pc = "dispatch"
  /\ fnResponse' = Execute(invocation, net)
  /\ pc' = "returned"
  /\ UNCHANGED <<message, conversation, chat, response, activeChats, chats,
                 received, sent, advanced, accepted, createFailed, prior, fault,
                 startupVars, invocation, net>>

HandlerNext == RunExecutable

HandlerSpec == HandlerInit /\ [][HandlerNext]_vars

Next ==
  \/ \E m \in StreamItems : StreamNext(m)
  \/ \E o \in {"found", "absent", "throws"} : GetConversationById(o)
  \/ \E ok \in BOOLEAN : GetOrCreateChat(ok)
  \/ \E ok \in BOOLEAN, r \in Responses : ChatNext(ok, r)
  \/ \E ok \in BOOLEAN : SendReply(ok)
  \/ \E ok \in BOOLEAN : SendApology(ok)

Spec == Init /\ [][Next]_vars

TypeOK ==
  /\ pc \in {"validate", "agentkey", "create", "sync", "subscribe", "exited",
            "stream", "lookup", "get", "next", "send", "apology", "crashed",
            "dispatch", "returned"}
  /\ message \in StreamItems
  /\ received \in 0..MaxMsgs

\* ------------------------------------------------------------ properties
\* C1: the registry holds at most one entry per sender at all times, and a
\* get-or-create for a sender that has an entry returns that entry's chat and
\* creates nothing (no createChat, no change of activeChats).
C1_OneSessionPerPeer ==
  [][ /\ \A e1, e2 \in activeChats' : e1.key = e2.key => e1 = e2
      /\ (pc = "get" /\ \E e \in activeChats : e.key = message.senderInboxId)
           => /\ chats' = chats
              /\ activeChats' = activeChats
              /\ \E e \in activeChats : e.key = message.senderInboxId /\ chat' = e.chat
    ]_vars

\* C1 witness: a second message of a sender is about to be advanced on the
\* chat that sender already had
C1_Witness ==
  /\ pc = "next"
  /\ prior.chat # NoChat
  /\ chat = prior.chat
  /\ Len(chats) = 1
  /\ received = 2

\* C2 (as claimed): once an iteration is over no Finished chat is left in the
\* registry, and chat.next is never called on a chat that is already Finished.
C2_FinishedSessionRemoved ==
  /\ pc \in {"stream", "crashed"}
       => \A e \in activeChats : chats[e.chat].turnState = "Active"
  /\ \A i \in DOMAIN advanced : ~advanced[i].wasFinished

C4_ApologyFailureSwallowed ==
  (Len(sent) > 0 /\ sent[Len(sent)].text = ApologyText /\ ~sent[Len(sent)].ok)
    => pc # "crashed"

\* C5 (as claimed): when chat.next rejected, the iteration ends with exactly
\* one send, the apology delivered on the message's conversation, and the loop
\* is back at the stream.
C5_OneApologyThenContinue ==
  (fault = "next" /\ pc # "apology")
    => /\ pc = "stream"
       /\ sent = <<[conv |-> message.conversationId, text |-> ApologyText,
                    ok |-> TRUE]>>

\* C6: taking a message from the agent itself (in any letter case) or a
\* non-text message from the stream leaves the loop at the stream with the
\* registry, the chats and the advanced turns unchanged, no conversation
\* looked up and nothing sent.
C6_IgnoredMessageDropped ==
  [][ (pc = "stream"
       /\ (toLowerCase(message'.senderInboxId) = inboxId \/ message'.typeId # "text"))
        => /\ pc' = "stream"
           /\ activeChats' = activeChats
           /\ chats' = chats
           /\ advanced' = advanced
           /\ accepted' = accepted
           /\ conversation' = None
           /\ sent' = <<>>
    ]_vars

\* C6 witness: a reaction from a peer that has a chat was dropped
C6_Witness ==
  /\ pc = "stream"
  /\ received = 2
  /\ message.typeId = "reaction"
  /\ message.senderInboxId = "p1"
  /\ [key |-> "p1", chat |-> 1] \in activeChats

\* C7: no step of an iteration for sender P changes the registry entry of
\* another sender Q, changes Q's chat, or advances a turn on Q's chat.
C7_OtherPeersUntouched ==
  [][ \A q \in Senders :
        q # message'.senderInboxId
          => /\ {e \in activeChats' : e.key = q} = {e \in activeChats : e.key = q}
             /\ \A e \in activeChats : e.key = q
                  => /\ chats'[e.chat] = chats[e.chat]
                     /\ \A i \in DOMAIN advanced' :
                          advanced'[i].chat = e.chat => i \in DOMAIN advanced
    ]_vars

\* C7 witness: P's turn finished and P's entry is gone while Q's entry stays
C7_Witness ==
  /\ pc = "stream"
  /\ response.isFinished
  /\ message.senderInboxId = "P1"
  /\ activeChats = {[key |-> "p1", chat |-> 1]}
  /\ Len(chats) = 2

\* C8: when the lookup resolves to no conversation, the loop goes back to the
\* stream with the registry, the chats and the advanced turns unchanged and
\* nothing sent; no later step of an iteration runs without a conversation.
C8_MissingConversationDiscarded ==
  [][ /\ (pc = "lookup" /\ conversation' = None /\ pc' # "crashed")
           => /\ pc' = "stream"
              /\ activeChats' = activeChats
              /\ chats' = chats
              /\ advanced' = advanced
              /\ sent' = <<>>
      /\ pc' \in {"get", "next", "send", "apology"} => conversation' # None
    ]_vars

\* C8 witness: a text message of a peer with a chat was discarded for want of
\* a conversation
C8_Witness ==
  /\ pc = "stream"
  /\ received = 2
  /\ message.typeId = "text"
  /\ message.senderInboxId = "p1"
  /\ conversation = None
  /\ [key |-> "p1", chat |-> 1] \in activeChats

\* C9 (as claimed): no rejected call ends the loop.
C9_NoFaultTerminatesLoop == pc # "crashed"

\* C10 (as claimed): when an iteration is over, the utterances advanced on the
\* chats of a sender are that sender's accepted messages, in arrival order.
C10_AdvancedAreAccepted ==
  pc \in {"stream", "crashed"}
    => \A p \in Senders :
         LET onP(a) == chats[a.chat].partnerId = p
             adv == SelectSeq(advanced, onP)
             fromP(a) == a.sender = p
             acc == SelectSeq(accepted, fromP)
         IN /\ Len(adv) = Len(acc)
            /\ \A i \in DOMAIN adv :
                 adv[i].seq = acc[i].seq /\ adv[i].content = acc[i].content

\* C10 (amended): when an iteration is over, the utterances advanced on the
\* chats of a sender are that sender's accepted messages whose chat was found
\* or created (createChat did not reject), in arrival order, each once, and
\* each is a text message sent by that sender.
C10_AdvancedAreAcceptedWithSession ==
  pc \in {"stream", "crashed"}
    => /\ \A p \in Senders :
            LET onP(a) == chats[a.chat].partnerId = p
                adv == SelectSeq(advanced, onP)
                fromP(a) == a.sender = p /\ a.seq \notin createFailed
                acc == SelectSeq(accepted, fromP)
            IN /\ Len(adv) = Len(acc)
               /\ \A i \in DOMAIN adv :
                    /\ adv[i].seq = acc[i].seq
                    /\ adv[i].content = acc[i].content
                    /\ adv[i].sender = p
                    /\ adv[i].typeId = "text"
       /\ \A i, j \in DOMAIN advanced : i < j => advanced[i].seq < advanced[j].seq

\* C10 witness: three messages of one sender; the second one's createChat
\* rejected, the first and the third were advanced in that order
C10_Witness ==
  /\ pc = "stream"
  /\ received = 3
  /\ createFailed = {2}
  /\ Len(advanced) = 2
  /\ advanced[1].seq = 1 /\ advanced[2].seq = 3
  /\ advanced[1].sender = "p1" /\ advanced[2].sender = "p1"
  /\ advanced[1].content = "hi" /\ advanced[2].content = "bye"

C12_HandlerFailuresBecomeFailed ==
  pc = "returned"
    => /\ fnResponse.status \in {"Done", "Failed"}
       /\ invocation.fn_name \in {"fetch_bitcoin_prediction", "detect_rug_pull"}
            => /\ fnResponse.called
               /\ fnResponse.status = "Done" <=> net = "ok"
               /\ net = "status" => fnResponse.payload = "status"

\* C12 witness: fetch_bitcoin_prediction returned Failed for a non-2xx response
C12_Witness ==
  /\ pc = "returned"
  /\ invocation.fn_name = "fetch_bitcoin_prediction"
  /\ net = "status"
  /\ fnResponse.status = "Failed"

\* C13 (as claimed): a call without its required argument, or a call of
\* fetch_bitcoin_prediction with an amount outside 1..10, returns Failed and
\* the backing service is not called.
C13_InvalidArgumentsRejected ==
  (pc = "returned"
   /\ \/ /\ invocation.fn_name = "fetch_bitcoin_prediction"
         /\ \/ ~("amount" \in DOMAIN invocation.args)
            \/ invocation.args.amount < AmountMin
            \/ invocation.args.amount > AmountMax
      \/ /\ invocation.fn_name = "detect_rug_pull"
         /\ ~("token_address" \in DOMAIN invocation.args))
    => /\ fnResponse.status = "Failed"
       /\ ~fnResponse.called

\* C15: while one of WALLET_KEY, ENCRYPTION_KEY, XMTP_ENV, GAME_AGENT_KEY,
\* RUGPULL_API_KEY is not set, the program is at its first start-up check or
\* has exited: no sync, no stream subscription, no stream item taken, no chat
\* created.
C15_MissingConfigStopsBeforeLoop ==
  ({"WALLET_KEY", "ENCRYPTION_KEY", "XMTP_ENV", "GAME_AGENT_KEY", "RUGPULL_API_KEY"}
     \ env # {})
    => /\ pc \in {"validate", "exited"}
       /\ ~synced
       /\ ~subscribed
       /\ received = 0
       /\ chats = <<>>
       /\ activeChats = {}

\* C15 witness: the process has exited at start-up because RUGPULL_API_KEY
\* alone is not set
C15_Witness ==
  /\ pc = "exited"
  /\ env = {"WALLET_KEY", "ENCRYPTION_KEY", "XMTP_ENV", "GAME_AGENT_KEY"}

\* C16: every send of an iteration, reply or apology, goes to the conversation
\* with the id of the message being processed, whichever conversation the
\* sender's chat was created in.
C16_SendsOnMessageConversation ==
  /\ \A i \in DOMAIN sent : sent[i].conv = message.conversationId
  /\ pc \in {"get", "next", "send", "apology"} => conversation = message.conversationId

\* C16 witness: the sender's chat was created by a message in c1; the reply to
\* the sender's next message, which came in c2, was sent on c2
C16_Witness ==
  /\ prior.chat # NoChat
  /\ prior.createdIn = "c1"
  /\ chat = prior.chat
  /\ message.conversationId = "c2"
  /\ sent = <<[conv |-> "c2", text |-> ReplyText, ok |-> TRUE]>>

\* C17: in one iteration at most one send succeeds and at most two are made;
\* an apology is sent only after a fault in createChat, chat.next or the reply
\* send, and never after a reply that was delivered.
C17_AtMostOneDelivery ==
  /\ Cardinality({i \in DOMAIN sent : sent[i].ok}) <= 1
  /\ Len(sent) <= 2
  /\ \A i \in DOMAIN sent :
       /\ sent[i].text \in {ReplyText, ApologyText}
       /\ sent[i].text = ApologyText
            => /\ fault \in {"create", "next", "send"}
               /\ i = Len(sent)
               /\ \A j \in DOMAIN sent : sent[j].text = ReplyText => ~sent[j].ok
       /\ sent[i].text = ReplyText => i = 1

\* C17 witness: the reply send was rejected and the apology was delivered
C17_Witness ==
  /\ pc = "stream"
  /\ fault = "send"
  /\ sent = <<[conv |-> conversation, text |-> ReplyText, ok |-> FALSE],
              [conv |-> conversation, text |-> ApologyText, ok |-> TRUE]>>

\* C18: a get-or-create for a sender without an entry calls createChat; when
\* createChat rejects, the registry and the chats are as before, the sender
\* still has no entry, and the iteration goes on to the apology, which is its
\* only send.
C18_FailedCreationRecordsNothing ==
  [][ /\ (pc = "get" /\ ~\E e \in activeChats : e.key = message.senderInboxId)
           => \/ /\ Len(chats') = Len(chats) + 1
                 /\ chats'[Len(chats')].partnerId = message.senderInboxId
                 /\ createFailed' = createFailed
              \/ /\ createFailed' = createFailed \cup {received}
                 /\ received \notin createFailed
                 /\ chats' = chats
                 /\ activeChats' = activeChats
                 /\ pc' = "apology"
      /\ fault' = "create"
           => /\ activeChats' = activeChats
              /\ chats' = chats
              /\ prior' = NoPrior
              /\ ~\E e \in activeChats' : e.key = message'.senderInboxId
              /\ pc' \in {"apology", "stream", "crashed"}
              /\ pc' # "apology"
                   => /\ Len(sent') = 1
                      /\ sent'[1].text = ApologyText
                      /\ sent'[1].conv = message'.conversationId
    ]_vars

\* C18 witness: createChat rejected for the first message of a sender, and the
\* sender's second message got a chat from a new createChat
C18_Witness ==
  /\ pc = "next"
  /\ received = 2
  /\ createFailed = {1}
  /\ accepted[1].sender = message.senderInboxId
  /\ prior = NoPrior
  /\ chat = 1
  /\ activeChats = {[key |-> message.senderInboxId, chat |-> 1]}

\* C19: no registry key equals the agent's inbox id when letter case is
\* ignored, a message from such a sender leaves the loop at the stream with
\* the registry and the chats untouched, and every registry key is the sender
\* id exactly as the message carried it: ids that differ in letter case only
\* have separate entries and chats.
C19_NoSessionForOwnIdentity ==
  [][ /\ \A e \in activeChats' :
           /\ toLowerCase(e.key) # toLowerCase(inboxId)
           /\ chats'[e.chat].partnerId = e.key
      /\ (pc = "stream" /\ toLowerCase(message'.senderInboxId) = toLowerCase(inboxId))
           => pc' = "stream" /\ activeChats' = activeChats /\ chats' = chats
      /\ activeChats' # activeChats
           => \A e \in (activeChats' \ activeChats) \cup (activeChats \ activeChats') :
                e.key = message.senderInboxId
    ]_vars

\* C19 witness: "p1" and "P1" each have their own entry and chat, and a text
\* message from "AGENT" has just been dropped
C19_Witness ==
  /\ pc = "stream"
  /\ received = 3
  /\ message.senderInboxId = "AGENT"
  /\ message.typeId = "text"
  /\ {e.key : e \in activeChats} = {"p1", "P1"}
  /\ Cardinality(activeChats) = 2
  /\ Len(chats) = 2
====
